---- MODULE Spec2Model ----
(***************************************************************************)
(* A model of maply: the Shape family of src/maply/geometry.py (dataclass  *)
(* construction, to_gdf, split_grid, Shape.random) and the layered Map of  *)
(* src/plot.py (add_shape, add_gdf, plot).                                 *)
(*                                                                         *)
(* Python values are modelled as follows.                                  *)
(*   number   an exact rational <<n, d>> in lowest terms, d > 0 (an int i  *)
(*            is <<i, 1>>); binary floating-point rounding is not modelled *)
(*   point    a pair <<x, y>> of numbers                                   *)
(*   dict     a function from its keys to its values                       *)
(*   list     a sequence                                                   *)
(*   Optional a record [tag, val], tag "None" or "val"; a constructor      *)
(*            argument may also have tag "omitted" (keyword not passed)    *)
(*   object   dict objects that can be aliased live in `heap` and are      *)
(*            referred to by their index; Shape objects live in `shapes`   *)
(***************************************************************************)
EXTENDS Integers, Sequences, FiniteSets, TLC

VARIABLES
    shapes,   \* the Shape objects constructed so far, by index
    built,    \* ghost: each Shape as it was when its constructor returned
    heap,     \* the style dict objects: [val |-> dict, caller |-> BOOLEAN]
    layers,   \* Map.layers in insertion order: <<[name, shapes, style]>>
    merged,   \* ghost: layer name -> left-to-right merge of the styles passed
    last,     \* the last call: its name, arguments, outcome and return value
    release,  \* the working tree and repository tools/release.py runs in
    shapeMap  \* Map.shapes of the shape-list Map of src/geometry.py

vars == <<shapes, built, heap, layers, merged, last, release, shapeMap>>

(***************************************************************************)
(* Bounds of the model.                                                    *)
(***************************************************************************)
MaxItems == 2       \* elements of the list given to a Multi* constructor
MaxRows == 3        \* rows and cols given to split_grid
MaxSize == 3        \* width and height of the rectangle split by split_grid
RandHi == 1         \* upper end of the bounds given to Shape.random
MaxCalls == 3       \* add_shape / add_gdf calls on one Map
MaxMapShapes == 3   \* shapes held by the shape-list Map of src/geometry.py
MaxEntries == 2     \* add_shape / add_gdf calls on one Map that is not plotted

(***************************************************************************)
(* Numbers.                                                                *)
(***************************************************************************)
Abs(x) == IF x < 0 THEN -x ELSE x

RECURSIVE Gcd(_, _)
Gcd(a, b) == IF b = 0 THEN a ELSE Gcd(b, a % b)

Norm(n, d) ==
    LET g == Gcd(Abs(n), Abs(d))
        s == IF d < 0 THEN -1 ELSE 1
    IN  <<(s * n) \div g, (s * d) \div g>>

Q(i) == <<i, 1>>
Pt(x, y) == <<Q(x), Q(y)>>

\* a + b
RatAdd(a, b) == Norm(a[1] * b[2] + b[1] * a[2], a[2] * b[2])
\* a * b
RatMul(a, b) == Norm(a[1] * b[1], a[2] * b[2])
\* a / b, b # 0
RatDiv(a, b) == Norm(a[1] * b[2], a[2] * b[1])
RatSub(a, b) == RatAdd(a, <<-b[1], b[2]>>)
RatLe(a, b) == a[1] * b[2] <= b[1] * a[2]
RatLt(a, b) == a[1] * b[2] < b[1] * a[2]

(***************************************************************************)
(* Optional values and keyword arguments.                                  *)
(***************************************************************************)
None == [tag |-> "None", val |-> <<>>]
Omitted == [tag |-> "omitted", val |-> <<>>]
Val(v) == [tag |-> "val", val |-> v]

\* A dataclass field after __init__: the argument, or the field's default
\* when the keyword was not passed.
Field(arg, default) == IF arg.tag = "omitted" THEN default ELSE arg

(***************************************************************************)
(* dicts.                                                                  *)
(***************************************************************************)
EmptyDict == <<>>
IsEmptyDict(d) == DOMAIN d = {}
\* d.update(u)
DictUpdate(d, u) ==
    [k \in DOMAIN d \cup DOMAIN u |-> IF k \in DOMAIN u THEN u[k] ELSE d[k]]
\* d[key] = value
DictSet(d, key, value) ==
    [k \in DOMAIN d \cup {key} |-> IF k = key THEN value ELSE d[k]]
\* d without key
DictDrop(d, key) == [k \in DOMAIN d \ {key} |-> d[k]]

(***************************************************************************)
(* The geometry library (shapely), as far as the program uses it.  A       *)
(* geometry is [geom_type, coords, holes, geoms]: coords of a simple        *)
(* geometry (a polygon's exterior ring, closed), holes a polygon's         *)
(* interior rings, geoms the parts of a multi-geometry.                    *)
(***************************************************************************)
Geom(t, cs, hs, gs) ==
    [geom_type |-> t, coords |-> cs, holes |-> hs, geoms |-> gs]
NoGeom == Geom("None", <<>>, <<>>, <<>>)

\* shapely closes a ring whose last point is not its first
CloseRing(cs) ==
    IF Len(cs) = 0 \/ cs[1] = cs[Len(cs)] THEN cs ELSE Append(cs, cs[1])

\* ShapelyPolygon(coords, holes=[]): an empty sequence gives POLYGON EMPTY
ShapelyPolygon(cs, holes) == Geom("Polygon", CloseRing(cs), holes, <<>>)
\* ShapelyLineString(coords): an empty sequence gives LINESTRING EMPTY
ShapelyLineString(cs) == Geom("LineString", cs, <<>>, <<>>)
\* ShapelyPoint((x, y))
ShapelyPoint(c) == Geom("Point", <<c>>, <<>>, <<>>)
ShapelyMulti(t, gs) == Geom(t, <<>>, <<>>, gs)
\* What the library does with an empty coordinate sequence given to
\* ShapelyPoint and with an empty part given to a multi-geometry depends on
\* its generation.  "v1": ShapelyPoint([]) raises IndexError and an empty
\* part is accepted; "v2": ShapelyPoint([]) raises ValueError and an empty
\* part raises EmptyPartError.
LibModes == {"v1", "v2"}
IsEmptyGeom(g) == Len(g.coords) = 0 /\ Len(g.geoms) = 0

(***************************************************************************)
(* Shape objects.                                                          *)
(***************************************************************************)
ShapeObj(kind, coords, data, origin, size, interior, items, geometry) ==
    [kind |-> kind, coords |-> coords, data |-> data, origin |-> origin,
     size |-> size, interior |-> interior, items |-> items,
     geometry |-> geometry]
NoShape == ShapeObj("none", None, EmptyDict, None, None, None, <<>>, NoGeom)

Ok(obj) == [outcome |-> "ok", obj |-> obj]
Raise(err) == [outcome |-> err, obj |-> NoShape]

\* Shape: coords and data default to a fresh empty list and a fresh empty dict
CoordsField(arg) == Field(arg, Val(<<>>))
DataField(arg) == Field(arg, Val(EmptyDict)).val

(***************************************************************************)
(* Point.__post_init__ and Line.__post_init__                              *)
(***************************************************************************)
PointPostInit(coordsArg, dataArg, lib) ==
    LET coords == CoordsField(coordsArg)
        data == DataField(dataArg)
    IN  IF coords.tag = "None" THEN Raise("ValueError")
        ELSE IF Len(coords.val) = 0
        THEN Raise(IF lib = "v2" THEN "ValueError" ELSE "IndexError")
        ELSE Ok(ShapeObj("Point", coords, data, None, None, None, <<>>,
                         ShapelyPoint(coords.val)))

LinePostInit(coordsArg, dataArg) ==
    LET coords == CoordsField(coordsArg)
        data == DataField(dataArg)
    IN  IF coords.tag = "None" THEN Raise("ValueError")
        ELSE Ok(ShapeObj("Line", coords, data, None, None, None, <<>>,
                         ShapelyLineString(coords.val)))

(***************************************************************************)
(* Polygon.__post_init__                                                   *)
(***************************************************************************)
RectCoords(origin, size) ==
    << origin,
       <<RatAdd(origin[1], size[1]), origin[2]>>,
       <<RatAdd(origin[1], size[1]), RatAdd(origin[2], size[2])>>,
       <<origin[1], RatAdd(origin[2], size[2])>> >>

PolygonPostInit(coordsArg, dataArg, originArg, sizeArg, interiorArg) ==
    LET coords0 == CoordsField(coordsArg)
        data == DataField(dataArg)
        origin == Field(originArg, None)
        size == Field(sizeArg, None)
        interior == Field(interiorArg, None)
        holes == IF interior.tag = "None" THEN <<>> ELSE interior.val
    IN  IF origin.tag # "None" /\ size.tag # "None"
        THEN LET coords == Val(RectCoords(origin.val, size.val))
             IN  Ok(ShapeObj("Polygon", coords, data, origin, size, interior,
                             <<>>, ShapelyPolygon(coords.val, holes)))
        ELSE IF coords0.tag # "None"
        THEN Ok(ShapeObj("Polygon", coords0, data, origin, size, interior,
                         <<>>, ShapelyPolygon(coords0.val, holes)))
        ELSE Raise("ValueError")

(***************************************************************************)
(* Polygon.split_grid                                                      *)
(***************************************************************************)
\* split_grid with the row and the column index exchanged
SubPolygon_swapped(self, i, j, width, height) ==
    LET sub_origin == <<RatAdd(self.origin.val[1], RatMul(Q(i), width)),
                        RatAdd(self.origin.val[2], RatMul(Q(j), height))>>
    IN  PolygonPostInit(Omitted, Omitted, Val(sub_origin),
                        Val(<<width, height>>), Omitted).obj

\* split_grid stepping the columns by the cell height
SubPolygon_jheight(self, i, j, width, height) ==
    LET sub_origin == <<RatAdd(self.origin.val[1], RatMul(Q(j), height)),
                        RatAdd(self.origin.val[2], RatMul(Q(i), height))>>
    IN  PolygonPostInit(Omitted, Omitted, Val(sub_origin),
                        Val(<<width, height>>), Omitted).obj

SubPolygon(self, i, j, width, height) ==
    LET sub_origin == <<RatAdd(self.origin.val[1], RatMul(Q(j), width)),
                        RatAdd(self.origin.val[2], RatMul(Q(i), height))>>
    IN  PolygonPostInit(Omitted, Omitted, Val(sub_origin),
                        Val(<<width, height>>), Omitted).obj

RECURSIVE GridInner(_, _, _, _, _, _, _)
GridInner(self, i, j, cols, width, height, sub_polygons) ==
    IF j >= cols THEN sub_polygons
    ELSE GridInner(self, i, j + 1, cols, width, height,
                   Append(sub_polygons, SubPolygon(self, i, j, width, height)))

RECURSIVE GridOuter(_, _, _, _, _, _, _)
GridOuter(self, i, rows, cols, width, height, sub_polygons) ==
    IF i >= rows THEN sub_polygons
    ELSE GridOuter(self, i + 1, rows, cols, width, height,
                   GridInner(self, i, 0, cols, width, height, sub_polygons))

\* split_grid refusing only when both origin and size are missing
GridGuard_and(self) == self.size.tag = "None" /\ self.origin.tag = "None"

GridGuard(self) == self.size.tag = "None" \/ self.origin.tag = "None"

\* [outcome, list]: the exception raised, or "ok" and the returned list
split_grid(self, rows, cols) ==
    IF GridGuard(self) THEN [outcome |-> "ValueError", list |-> <<>>]
    \* self.size[0], self.origin[0]: subscripting None is a TypeError
    ELSE IF self.size.tag = "None" \/ self.origin.tag = "None"
    THEN [outcome |-> "TypeError", list |-> <<>>]
    ELSE IF cols = 0 \/ rows = 0
    THEN [outcome |-> "ZeroDivisionError", list |-> <<>>]
    ELSE LET width == RatDiv(self.size.val[1], Q(cols))
             height == RatDiv(self.size.val[2], Q(rows))
         IN  [outcome |-> "ok",
              list |-> GridOuter(self, 0, rows, cols, width, height, <<>>)]

(***************************************************************************)
(* Shape.to_gdf: the table returned (a list of rows, each a dict) and the  *)
(* Shape afterwards.  `self.data or {}` is self.data itself unless it is   *)
(* empty, so the geometry is stored into the Shape's own dict.             *)
(***************************************************************************)
\* to_gdf starting from an empty dict whatever the Shape's data
GdfDict_fresh(self) == EmptyDict

GdfDict(self) == IF IsEmptyDict(self.data) THEN EmptyDict ELSE self.data

to_gdf(self) == << DictSet(GdfDict(self), "geometry", self.geometry) >>

AfterToGdf(self) ==
    IF IsEmptyDict(self.data) THEN self
    ELSE [self EXCEPT !.data = DictSet(self.data, "geometry", self.geometry)]


(***************************************************************************)
(* MultiPolygon / MultiLine / MultiPoint.__post_init__.  An element of the *)
(* list given is a Python value: a Shape object, a list, a tuple or        *)
(* something else (a str, say).                                            *)
(***************************************************************************)
\* a reference to the Shape object shapes[i]
ShapeItem(i) == [t |-> "shape", ref |-> i, val |-> <<>>]
ListItem(v) == [t |-> "list", ref |-> 0, val |-> v]
TupleItem(v) == [t |-> "tuple", ref |-> 0, val |-> v]
OtherItem == [t |-> "other", ref |-> 0, val |-> <<>>]

\* isinstance(item, Polygon | Line | Point)
IsInstance(item, kind) == item.t = "shape" /\ shapes[item.ref].kind = kind

\* MultiPoint accepting a list, as the other two classes do
RawType_list(kind) == "list"

\* the raw Python type each class accepts besides its Shape class
RawType(kind) == IF kind = "Point" THEN "tuple" ELSE "list"

\* ShapelyPolygon(item) / ShapelyLineString(item) / ShapelyPoint(item)
RawGeom(kind, v) ==
    CASE kind = "Polygon" -> ShapelyPolygon(v, <<>>)
      [] kind = "Line" -> ShapelyLineString(v)
      [] kind = "Point" -> ShapelyPoint(v)

\* the loop over the items: [outcome, geoms]
RECURSIVE ProcessItems(_, _, _, _)
ProcessItems(items, k, kind, processed) ==
    IF k > Len(items) THEN [outcome |-> "ok", geoms |-> processed]
    ELSE IF IsInstance(items[k], kind)
    THEN ProcessItems(items, k + 1, kind,
                      Append(processed, shapes[items[k].ref].geometry))
    ELSE IF items[k].t = RawType(kind)
    THEN ProcessItems(items, k + 1, kind,
                      Append(processed, RawGeom(kind, items[k].val)))
    ELSE [outcome |-> "TypeError", geoms |-> <<>>]

MultiPostInit(multi, kind, geomType, dataArg, itemsArg, lib) ==
    LET data == DataField(dataArg)
        items == Field(itemsArg, Val(<<>>)).val
        p == ProcessItems(items, 1, kind, <<>>)
    IN  IF p.outcome # "ok" THEN Raise(p.outcome)
        ELSE IF lib = "v2"
                /\ \E k \in 1..Len(p.geoms) : IsEmptyGeom(p.geoms[k])
        THEN Raise("EmptyPartError")
        ELSE LET geometry == ShapelyMulti(geomType, p.geoms)
                 coords == [k \in 1..Len(p.geoms) |-> p.geoms[k].coords]
             IN  Ok(ShapeObj(multi, Val(coords), data, None, None, None,
                             items, geometry))

MultiPolygonPostInit(dataArg, itemsArg, lib) ==
    MultiPostInit("MultiPolygon", "Polygon", "MultiPolygon", dataArg,
                  itemsArg, lib)
MultiLinePostInit(dataArg, itemsArg, lib) ==
    MultiPostInit("MultiLine", "Line", "MultiLineString", dataArg,
                  itemsArg, lib)
MultiPointPostInit(dataArg, itemsArg, lib) ==
    MultiPostInit("MultiPoint", "Point", "MultiPoint", dataArg, itemsArg, lib)

(***************************************************************************)
(* geometry.convex_hull of a MultiPoint, and .exterior.coords of it.  The  *)
(* hull of one distinct point is a Point, of collinear points a            *)
(* LineString, otherwise a Polygon whose ring is taken clockwise from the  *)
(* lowest leftmost vertex.  The coordinates here are Python ints.          *)
(***************************************************************************)
X(p) == p[1][1]
Y(p) == p[2][1]
PtLess(p, q) == X(p) < X(q) \/ (X(p) = X(q) /\ Y(p) < Y(q))
\* > 0: o, a, b turn left
Cross(o, a, b) ==
    (X(a) - X(o)) * (Y(b) - Y(o)) - (Y(a) - Y(o)) * (X(b) - X(o))

RECURSIVE SortPts(_)
SortPts(S) ==
    IF S = {} THEN <<>>
    ELSE LET m == CHOOSE p \in S : \A q \in S \ {p} : PtLess(p, q)
         IN  <<m>> \o SortPts(S \ {m})

RECURSIVE HullPop(_, _)
HullPop(stack, p) ==
    IF Len(stack) >= 2
       /\ Cross(stack[Len(stack) - 1], stack[Len(stack)], p) <= 0
    THEN HullPop(SubSeq(stack, 1, Len(stack) - 1), p)
    ELSE Append(stack, p)

RECURSIVE HalfHull(_, _, _)
HalfHull(sorted, k, stack) ==
    IF k > Len(sorted) THEN stack
    ELSE HalfHull(sorted, k + 1, HullPop(stack, sorted[k]))

Reverse(q) == [k \in 1..Len(q) |-> q[Len(q) + 1 - k]]

ConvexHull(g) ==
    LET S == {g.geoms[k].coords[1] : k \in 1..Len(g.geoms)}
        sorted == SortPts(S)
        lower == HalfHull(sorted, 1, <<>>)
        upper == HalfHull(Reverse(sorted), 1, <<>>)
        \* counter-clockwise, each vertex once
        ccw == SubSeq(lower, 1, Len(lower) - 1)
               \o SubSeq(upper, 1, Len(upper) - 1)
    IN  IF Cardinality(S) = 1 THEN ShapelyPoint(sorted[1])
        ELSE IF Len(ccw) = 2 THEN ShapelyLineString(ccw)
        ELSE ShapelyPolygon(<<ccw[1]>> \o Reverse(SubSeq(ccw, 2, Len(ccw))),
                            <<>>)

\* geom.exterior: only a Polygon has one
HasExterior(g) == g.geom_type = "Polygon"

(***************************************************************************)
(* The record of the last call.                                            *)
(***************************************************************************)
Call(op, self, args, outcome, ret) ==
    [op |-> op, self |-> self, args |-> args, outcome |-> outcome,
     ret |-> ret]
NoCall == Call("none", 0, <<>>, "ok", <<>>)

CtorArgs(coordsArg, dataArg, originArg, sizeArg, itemsArg) ==
    [coords |-> coordsArg, data |-> dataArg, origin |-> originArg,
     size |-> sizeArg, items |-> itemsArg]

(***************************************************************************)
(* The calls the specifications below share.                               *)
(***************************************************************************)
\* an exception is not caught: it ends the program
Running == last.outcome = "ok"

\* a constructor call: the new object is kept when construction succeeds
Construct(op, args, r) ==
    /\ Running
    /\ shapes' = IF r.outcome = "ok" THEN Append(shapes, r.obj) ELSE shapes
    /\ built' = IF r.outcome = "ok" THEN Append(built, r.obj) ELSE built
    /\ last' = Call(op, 0, args, r.outcome, r.obj)
    /\ UNCHANGED <<heap, layers, merged, release, shapeMap>>

\* shape.to_gdf()
ToGdf ==
    \E i \in 1..Len(shapes) :
        /\ Running
        /\ shapes' = [shapes EXCEPT ![i] = AfterToGdf(shapes[i])]
        /\ last' = Call("to_gdf", i, <<>>, "ok", to_gdf(shapes[i]))
        /\ UNCHANGED <<built, heap, layers, merged, release, shapeMap>>

\* polygon.split_grid(rows, cols)
SplitGrid ==
    \E i \in 1..Len(shapes), rows \in 0..MaxRows, cols \in 0..MaxRows :
        /\ Running
        /\ shapes[i].kind = "Polygon"
        /\ LET r == split_grid(shapes[i], rows, cols)
           IN  last' = Call("split_grid", i,
                            [rows |-> rows, cols |-> cols], r.outcome, r.list)
        /\ UNCHANGED <<shapes, built, heap, layers, merged, release, shapeMap>>

(***************************************************************************)
(* SpecShape: the life of one Point, Line or Polygon: a program calls a    *)
(* constructor and then the object's methods.  The arguments are drawn     *)
(* from the sets below.                                                    *)
(***************************************************************************)
Ring1 == <<Pt(0, 0), Pt(1, 0), Pt(0, 1)>>
Path1 == <<Pt(0, 0), Pt(1, 1)>>
OtherGeometry == ShapelyPoint(Pt(9, 9))

NameData == [k \in {"name"} |-> "a"]
GeometryData == [k \in {"geometry"} |-> OtherGeometry]
DataArgs == {Omitted, Val(NameData), Val(GeometryData)}
PointCoordArgs == {Omitted, None, Val(Pt(0, 0)), Val(Pt(1, 1))}
LineCoordArgs == {Omitted, None, Val(Path1)}
PolygonCoordArgs == {Omitted, None, Val(Ring1)}
OriginArgs == {Omitted, None, Val(Pt(0, 0))}
SizeArgs == {Omitted, None, Val(Pt(2, 2))}

NewPoint ==
    \E c \in PointCoordArgs, d \in DataArgs, lib \in LibModes :
        /\ shapes = <<>>
        /\ Construct("Point", CtorArgs(c, d, Omitted, Omitted, <<>>),
                     PointPostInit(c, d, lib))

NewLine ==
    \E c \in LineCoordArgs, d \in DataArgs :
        /\ shapes = <<>>
        /\ Construct("Line", CtorArgs(c, d, Omitted, Omitted, <<>>),
                     LinePostInit(c, d))

NewPolygon ==
    \E c \in PolygonCoordArgs, d \in DataArgs, o \in OriginArgs,
       z \in SizeArgs :
        /\ shapes = <<>>
        /\ Construct("Polygon", CtorArgs(c, d, o, z, <<>>),
                     PolygonPostInit(c, d, o, z, Omitted))

InitShape ==
    /\ shapes = <<>>
    /\ built = <<>>
    /\ heap = <<>>
    /\ layers = <<>>
    /\ merged = <<>>
    /\ last = NoCall
    /\ release = <<>>
    /\ shapeMap = <<>>

NextShape ==
    \/ NewPolygon
    \/ NewLine
    \/ NewPoint
    \/ ToGdf
    \/ SplitGrid

SpecShape == InitShape /\ [][NextShape]_vars

(***************************************************************************)
(* SpecMulti: a program that holds four Shapes (a Point, a Line, a         *)
(* rectangle and an empty Polygon), builds one MultiPolygon, MultiLine or  *)
(* MultiPoint from them and from raw Python values, and calls to_gdf.      *)
(***************************************************************************)
Pool ==
    << PointPostInit(Val(Pt(1, 1)), Val(NameData), "v2").obj,
       LinePostInit(Val(Path1), Omitted).obj,
       PolygonPostInit(Omitted, Val(GeometryData), Val(Pt(0, 0)),
                       Val(Pt(2, 2)), Omitted).obj,
       PolygonPostInit(Val(<<>>), Omitted, Omitted, Omitted, Omitted).obj >>

\* the Python values a Multi* list may hold: the Shapes held, a list of
\* coordinate tuples, a coordinate tuple, and a str
ItemPool ==
    [k \in 1..Len(Pool) |-> ShapeItem(k)]
    \o <<ListItem(Ring1), TupleItem(Pt(1, 1)), OtherItem>>
ItemLists == UNION { [1..n -> 1..Len(ItemPool)] : n \in 0..MaxItems }
ItemsOf(ix) == [k \in 1..Len(ix) |-> ItemPool[ix[k]]]

NewMultiPolygon ==
    \E ix \in ItemLists, d \in DataArgs, lib \in LibModes :
        /\ Len(shapes) = Len(Pool)
        /\ Construct("MultiPolygon",
                     CtorArgs(Omitted, d, Omitted, Omitted, ItemsOf(ix)),
                     MultiPolygonPostInit(d, Val(ItemsOf(ix)), lib))

NewMultiLine ==
    \E ix \in ItemLists, d \in DataArgs, lib \in LibModes :
        /\ Len(shapes) = Len(Pool)
        /\ Construct("MultiLine",
                     CtorArgs(Omitted, d, Omitted, Omitted, ItemsOf(ix)),
                     MultiLinePostInit(d, Val(ItemsOf(ix)), lib))

NewMultiPoint ==
    \E ix \in ItemLists, d \in DataArgs, lib \in LibModes :
        /\ Len(shapes) = Len(Pool)
        /\ Construct("MultiPoint",
                     CtorArgs(Omitted, d, Omitted, Omitted, ItemsOf(ix)),
                     MultiPointPostInit(d, Val(ItemsOf(ix)), lib))

InitMulti ==
    /\ shapes = Pool
    /\ built = Pool
    /\ heap = <<>>
    /\ layers = <<>>
    /\ merged = <<>>
    /\ last = NoCall
    /\ release = <<>>
    /\ shapeMap = <<>>

NextMulti ==
    \/ NewMultiPolygon
    \/ NewMultiLine
    \/ NewMultiPoint
    \/ ToGdf

SpecMulti == InitMulti /\ [][NextMulti]_vars

(***************************************************************************)
(* Claims about construction, split_grid and to_gdf.                       *)
(***************************************************************************)
Given(arg) == arg.tag = "val"
IsCtor(op) == op \in {"Point", "Line", "Polygon"}
IsMultiCtor(op) == op \in {"MultiPolygon", "MultiLine", "MultiPoint"}

\* C2: constructing a Polygon with neither coords nor origin+size given, a
\* Point with no coordinate given, or a Line with no coordinate sequence
\* given raises ValueError and produces no shape object.
C2_MissingInputRaises ==
    ( /\ IsCtor(last.op)
      /\ ~Given(last.args.coords)
      /\ ~(Given(last.args.origin) /\ Given(last.args.size)) )
    => (last.outcome = "ValueError" /\ last.ret = NoShape /\ shapes = <<>>)

\* C5: split_grid on a Polygon whose origin or size is None raises
\* ValueError, returns no sub-polygons and leaves the Polygon's coords,
\* origin, size and geometry as they were when it was constructed.
C5_SplitGridNeedsOriginAndSize ==
    ( /\ last.op = "split_grid"
      /\ \/ built[last.self].origin.tag = "None"
         \/ built[last.self].size.tag = "None" )
    => /\ last.outcome = "ValueError"
       /\ last.ret = <<>>
       /\ shapes[last.self].coords = built[last.self].coords
       /\ shapes[last.self].origin = built[last.self].origin
       /\ shapes[last.self].size = built[last.self].size
       /\ shapes[last.self].geometry = built[last.self].geometry

\* split_grid was refused on a Polygon built from a coordinate ring, and on
\* one built with an origin and no size
C5_Witness ==
    /\ last.op = "split_grid"
    /\ last.outcome = "ValueError"
    /\ built[last.self].coords.val = Ring1
    /\ built[last.self].origin.tag = "val"
    /\ built[last.self].size.tag = "None"

\* the single-part class of a Multi* class
C6_Single(op) ==
    CASE op = "MultiPolygon" -> "Polygon"
      [] op = "MultiLine" -> "Line"
      [] op = "MultiPoint" -> "Point"
C6_IsShapeOf(item, op) ==
    item.t = "shape" /\ built[item.ref].kind = C6_Single(op)
\* the geometry an accepted element stands for
C6_Member(item, op) ==
    IF item.t = "shape" THEN built[item.ref].geometry
    ELSE CASE op = "MultiPolygon" -> Geom("Polygon", CloseRing(item.val), <<>>, <<>>)
           [] op = "MultiLine" -> Geom("LineString", item.val, <<>>, <<>>)
           [] op = "MultiPoint" -> Geom("Point", <<item.val>>, <<>>, <<>>)
C6_Holds(IsRaw(_, _)) ==
    IsMultiCtor(last.op) =>
        LET items == last.args.items
            Fine(k) == C6_IsShapeOf(items[k], last.op) \/ IsRaw(items[k], last.op)
            AllFine == \A k \in 1..Len(items) : Fine(k)
            NoneEmpty ==
                \A k \in 1..Len(items) :
                    items[k].t = "shape" => ~IsEmptyGeom(built[items[k].ref].geometry)
        IN  /\ (last.outcome = "TypeError") <=> ~AllFine
            /\ (AllFine /\ NoneEmpty) =>
                  /\ last.outcome = "ok"
                  /\ last.ret.geometry.geom_type
                        = (IF last.op = "MultiLine" THEN "MultiLineString" ELSE last.op)
                  /\ Len(last.ret.geometry.geoms) = Len(items)
                  /\ \A k \in 1..Len(items) :
                        last.ret.geometry.geoms[k] = C6_Member(items[k], last.op)

C6_RawIsList(item, op) == item.t = "list"
C6_RawByClass(item, op) ==
    item.t = (IF op = "MultiPoint" THEN "tuple" ELSE "list")

C7_AsStated ==
    last.op = "to_gdf" =>
        /\ Len(last.ret) = 1
        /\ "geometry" \in DOMAIN last.ret[1]
        /\ last.ret[1]["geometry"] = built[last.self].geometry
        /\ DOMAIN last.ret[1] \ {"geometry"} = DOMAIN built[last.self].data
        /\ \A k \in DOMAIN built[last.self].data :
              last.ret[1][k] = built[last.self].data[k]

\* C7 as amended: to_gdf returns one row whose geometry column is the
\* shape's geometry and whose other columns are exactly the attribute
\* fields the shape was constructed with, other than a field named
\* "geometry", which the geometry column replaces.
C7_ToGdfRow ==
    last.op = "to_gdf" =>
        /\ Len(last.ret) = 1
        /\ "geometry" \in DOMAIN last.ret[1]
        /\ last.ret[1]["geometry"] = built[last.self].geometry
        /\ shapes[last.self].geometry = built[last.self].geometry
        /\ DOMAIN last.ret[1] \ {"geometry"}
             = DOMAIN built[last.self].data \ {"geometry"}
        /\ \A k \in DOMAIN built[last.self].data \ {"geometry"} :
              last.ret[1][k] = built[last.self].data[k]

\* to_gdf was called on a MultiPolygon that carries a name
C7_Witness ==
    /\ last.op = "to_gdf"
    /\ built[last.self].kind = "MultiPolygon"
    /\ Len(built[last.self].geometry.geoms) = 2
    /\ "name" \in DOMAIN built[last.self].data

(***************************************************************************)
(* SpecGrid: a program that builds one rectangle from an origin and a size *)
(* and calls split_grid on it.                                             *)
(***************************************************************************)
GridOrigins == {Pt(0, 0), Pt(1, 2), <<<<1, 2>>, Q(-1)>>}
GridSizes == {Q(w) : w \in 1..MaxSize} \cup {<<1, 2>>}

InitGrid ==
    /\ \E o \in GridOrigins, w \in GridSizes, h \in GridSizes :
          /\ shapes = << PolygonPostInit(Omitted, Omitted, Val(o),
                                         Val(<<w, h>>), Omitted).obj >>
          /\ built = shapes
    /\ heap = <<>>
    /\ layers = <<>>
    /\ merged = <<>>
    /\ last = NoCall
    /\ release = <<>>
    /\ shapeMap = <<>>

NextGrid == SplitGrid

SpecGrid == InitGrid /\ [][NextGrid]_vars

(***************************************************************************)
(* Claims about the grid.                                                  *)
(***************************************************************************)
C3_Applies ==
    /\ last.op = "split_grid"
    /\ last.args.rows >= 1
    /\ last.args.cols >= 1
    /\ built[last.self].origin.tag = "val"
    /\ built[last.self].size.tag = "val"

\* C3: for a Polygon built from origin (ox, oy) and size (W, H),
\* split_grid(rows, cols) with rows, cols >= 1 returns rows*cols new
\* Polygons in row-major order: the one at index i*cols + j has origin
\* (ox + j*W/cols, oy + i*H/rows) and size (W/cols, H/rows).
C3_GridRowMajor ==
    C3_Applies =>
        LET rows == last.args.rows
            cols == last.args.cols
            o == built[last.self].origin.val
            z == built[last.self].size.val
        IN  /\ last.outcome = "ok"
            /\ Len(last.ret) = rows * cols
            /\ \A i \in 0..(rows - 1), j \in 0..(cols - 1) :
                  LET sub == last.ret[i * cols + j + 1]
                  IN  /\ sub.kind = "Polygon"
                      /\ sub.origin.val =
                           << RatAdd(o[1], RatDiv(RatMul(Q(j), z[1]), Q(cols))),
                              RatAdd(o[2], RatDiv(RatMul(Q(i), z[2]), Q(rows))) >>
                      /\ sub.size.val =
                           <<RatDiv(z[1], Q(cols)), RatDiv(z[2], Q(rows))>>

\* a 2 x 3 grid was returned
C3_Witness ==
    /\ C3_Applies
    /\ last.args.rows = 2
    /\ last.args.cols = 3
    /\ Len(last.ret) = 6

\* the rectangle a Polygon's ring spans: [x0, x1] x [y0, y1]
C4_Box(p) ==
    [x0 |-> p.geometry.coords[1][1], y0 |-> p.geometry.coords[1][2],
     x1 |-> p.geometry.coords[3][1], y1 |-> p.geometry.coords[3][2]]
C4_Max(a, b) == IF RatLe(a, b) THEN b ELSE a
C4_Min(a, b) == IF RatLe(a, b) THEN a ELSE b
C4_Area(b) == RatMul(RatSub(b.x1, b.x0), RatSub(b.y1, b.y0))
C4_Inside(b, outer) ==
    /\ RatLe(outer.x0, b.x0) /\ RatLe(b.x1, outer.x1)
    /\ RatLe(outer.y0, b.y0) /\ RatLe(b.y1, outer.y1)
C4_InteriorsMeet(a, b) ==
    /\ RatLt(C4_Max(a.x0, b.x0), C4_Min(a.x1, b.x1))
    /\ RatLt(C4_Max(a.y0, b.y0), C4_Min(a.y1, b.y1))
C4_Contains(b, x, y) ==
    RatLe(b.x0, x) /\ RatLe(x, b.x1) /\ RatLe(b.y0, y) /\ RatLe(y, b.y1)
RECURSIVE C4_AreaSum(_, _)
C4_AreaSum(list, k) ==
    IF k > Len(list) THEN Q(0)
    ELSE RatAdd(C4_Area(C4_Box(list[k])), C4_AreaSum(list, k + 1))
\* the points of the rectangle checked for cover: a lattice of
\* (GridSamples + 1) x (GridSamples + 1) points spanning it
GridSamples == 4

\* C4: the sub-polygons returned by split_grid(rows, cols) on an
\* origin+size rectangle cover it with no gaps and no overlaps: every
\* (sampled) point of the rectangle lies in some sub-rectangle, no two
\* sub-rectangles share interior points, none extends outside the original,
\* and their areas sum to W*H.
C4_GridTiles ==
    C3_Applies =>
        LET outer == C4_Box(built[last.self])
            z == built[last.self].size.val
            n == Len(last.ret)
        IN  /\ last.outcome = "ok"
            /\ \A k \in 1..n : C4_Inside(C4_Box(last.ret[k]), outer)
            /\ \A k \in 1..n : \A m \in (k + 1)..n :
                  ~C4_InteriorsMeet(C4_Box(last.ret[k]), C4_Box(last.ret[m]))
            /\ C4_AreaSum(last.ret, 1) = RatMul(z[1], z[2])
            /\ \A a \in 0..GridSamples, b \in 0..GridSamples :
                  LET x == RatAdd(outer.x0, RatDiv(RatMul(Q(a), z[1]), Q(GridSamples)))
                      y == RatAdd(outer.y0, RatDiv(RatMul(Q(b), z[2]), Q(GridSamples)))
                  IN  \E k \in 1..n : C4_Contains(C4_Box(last.ret[k]), x, y)

\* a 3 x 2 grid of a rectangle whose width 3 is not a multiple of 2
C4_Witness ==
    /\ C3_Applies
    /\ last.outcome = "ok"
    /\ last.args.rows = 3
    /\ last.args.cols = 2
    /\ built[last.self].size.val[1] = Q(3)
    /\ Len(last.ret) = 6

(***************************************************************************)
(* Shape.random(shape_type, bounds).  The random draws are the parameters: *)
(* choice (random.choice of the kind), n (the number of points) and pts    *)
(* (the points drawn, of which the first n are used).                      *)
(***************************************************************************)
ShapeTypes == <<"point", "line", "polygon">>
LineMinPoints == 2
LineMaxPoints == 5
PolygonMinPoints == 3
PolygonMaxPoints == 6
\* random() drawing from one point on for a line
LineNumPoints_from1 == 1..LineMaxPoints
LineNumPoints == LineMinPoints..LineMaxPoints
PolygonNumPoints == PolygonMinPoints..PolygonMaxPoints
\* random.randint(lo, hi): an int of lo..hi, ends included; ValueError when
\* the range is empty
RandInt(bounds) == bounds[1]..bounds[2]
RandPoints(bounds) ==
    {Pt(x, y) : x \in RandInt(bounds), y \in RandInt(bounds)}

RandomPolygon(pts, lib) ==
    LET points == [k \in 1..Len(pts) |->
                     PointPostInit(Val(pts[k]), Omitted, lib).obj.coords.val]
        mp == MultiPointPostInit(Omitted,
                  Val([k \in 1..Len(points) |-> TupleItem(points[k])]), lib)
        hull == ConvexHull(mp.obj.geometry)
    IN  IF ~HasExterior(hull) THEN Raise("AttributeError")
        ELSE PolygonPostInit(Val(hull.coords), Omitted, Omitted, Omitted,
                             Omitted)

random(shape_type, bounds, choice, pts, lib) ==
    LET kind == IF shape_type.tag = "val" THEN shape_type.val ELSE choice
    IN  IF kind \notin {"point", "line", "polygon"} THEN Raise("ValueError")
        ELSE IF RandInt(bounds) = {} THEN Raise("ValueError")
        ELSE IF kind = "point" THEN PointPostInit(Val(pts[1]), Omitted, lib)
        ELSE IF kind = "line" THEN LinePostInit(Val(pts), Omitted)
        ELSE RandomPolygon(pts, lib)

\* the number of points random() draws for a kind
NumPoints(kind) ==
    CASE kind = "line" -> LineNumPoints
      [] kind = "polygon" -> PolygonNumPoints
      [] OTHER -> {1}

(***************************************************************************)
(* SpecRandom: a program that calls Shape.random once.                     *)
(***************************************************************************)
RandomCalls ==
    ({Val("point"), Val("line"), Val("polygon"), Val("circle")}
        \X {<<0, RandHi>>, <<1, 0>>})
    \cup ({None} \X {<<1, 1>>})

\* (no draw is made when the kind is unknown or the range is empty, and
\* random.choice is called only when no shape_type is given; the two
\* generations of the geometry library differ on empty inputs only, which
\* random() never produces, so one of them is used)
Random ==
    /\ last.op = "none"
    /\ \E call \in RandomCalls :
        \E c \in (IF call[1].tag = "val" THEN {1} ELSE 1..Len(ShapeTypes)) :
            LET shape_type == call[1]
                bounds == call[2]
                kind == IF shape_type.tag = "val" THEN shape_type.val
                        ELSE ShapeTypes[c]
                grid == IF RandInt(bounds) = {} THEN {Pt(0, 0)}
                        ELSE RandPoints(bounds)
                nums == IF RandInt(bounds) = {} THEN {1} ELSE NumPoints(kind)
            IN  \E n \in nums : \E pts \in [1..n -> grid] :
                    Construct("random",
                              [shape_type |-> shape_type, bounds |-> bounds,
                               kind |-> kind, draws |-> pts],
                              random(shape_type, bounds, ShapeTypes[c], pts,
                                     "v2"))

InitRandom == InitShape

NextRandom == Random

SpecRandom == InitRandom /\ [][NextRandom]_vars

(***************************************************************************)
(* Claims about Shape.random.                                              *)
(***************************************************************************)
C9_Applies ==
    /\ last.op = "random"
    /\ last.args.kind = "line"
    /\ last.args.bounds[1] <= last.args.bounds[2]

\* C9: Shape.random("line", bounds) always returns a Line whose coordinate
\* list has between 2 and 5 points, every coordinate an integer within
\* bounds, whatever the random draws.
C9_RandomLine ==
    C9_Applies =>
        /\ last.outcome = "ok"
        /\ last.ret.kind = "Line"
        /\ last.ret.geometry.geom_type = "LineString"
        /\ last.ret.geometry.coords = last.ret.coords.val
        /\ Len(last.ret.coords.val) \in 2..5
        /\ \A k \in 1..Len(last.ret.coords.val) : \A a \in 1..2 :
              LET v == last.ret.coords.val[k][a]
              IN  v[2] = 1 /\ last.args.bounds[1] <= v[1]
                  /\ v[1] <= last.args.bounds[2]

\* a line of five points was returned, one of four
C9_Witness ==
    /\ C9_Applies
    /\ last.outcome = "ok"
    /\ Len(last.ret.coords.val) = 5
    /\ Cardinality({last.ret.coords.val[k] : k \in 1..5}) = 4

C10_Applies ==
    /\ last.op = "random"
    /\ last.args.kind = "polygon"
    /\ last.args.bounds[1] <= last.args.bounds[2]

\* C10: Shape.random("polygon", bounds) returns, for every outcome of the
\* draws of 3 to 6 integer points (repeated or collinear ones included), a
\* Polygon whose geometry is a valid polygon equal to the convex hull of
\* the points drawn; it never fails.
C10_RandomPolygonNeverFails ==
    C10_Applies =>
        LET draws == {last.args.draws[k] : k \in 1..Len(last.args.draws)}
            ring == last.ret.geometry.coords
            n == Len(ring) - 1
        IN  /\ last.outcome = "ok"
            /\ last.ret.kind = "Polygon"
            /\ last.ret.geometry.geom_type = "Polygon"
            \* a closed ring of at least three vertices, all of them drawn
            /\ n >= 3 /\ ring[1] = ring[n + 1]
            /\ \A k \in 1..n : ring[k] \in draws
            \* strictly convex, clockwise
            /\ \A k \in 1..n :
                  Cross(ring[k], ring[k + 1], ring[(k % n) + 2]) < 0
            \* every point drawn lies in it
            /\ \A p \in draws : \A k \in 1..n :
                  Cross(ring[k], ring[k + 1], p) <= 0

(***************************************************************************)
(* The Map of src/plot.py.  Map.layers is kept in insertion order; a layer *)
(* is [name, shapes, style], style being the index in `heap` of the dict   *)
(* object the layer holds.  A style dict maps option names to strings.     *)
(***************************************************************************)
\* a style argument: None, a dict object the caller holds (by reference),
\* or a dict literal written in the call
StyleNone == [tag |-> "None", ref |-> 0, lit |-> EmptyDict]
StyleRef(k) == [tag |-> "ref", ref |-> k, lit |-> EmptyDict]
StyleLit(d) == [tag |-> "lit", ref |-> 0, lit |-> d]

\* a label argument: None or a str
LabelNone == [t |-> "None", s |-> ""]
LabelStr(str) == [t |-> "str", s |-> str]

HeapObj(d, caller) == [val |-> d, caller |-> caller]

LayerIndex(ls, name) ==
    IF \E k \in 1..Len(ls) : ls[k].name = name
    THEN CHOOSE k \in 1..Len(ls) : ls[k].name = name
    ELSE 0

\* the dict a style argument denotes
StyleValue(h, styleArg) ==
    IF styleArg.tag = "ref" THEN h[styleArg.ref].val ELSE styleArg.lit

\* Python truth of a style argument: None and {} are false
Truthy(h, styleArg) ==
    styleArg.tag # "None" /\ ~IsEmptyDict(StyleValue(h, styleArg))

\* `style or {}`: the object given when it is true, else a new empty dict.
\* Returns the heap and the index of the object.
StyleOrEmpty(h, styleArg) ==
    IF Truthy(h, styleArg)
    THEN IF styleArg.tag = "ref"
         THEN [heap |-> h, ref |-> styleArg.ref]
         ELSE [heap |-> Append(h, HeapObj(styleArg.lit, FALSE)),
               ref |-> Len(h) + 1]
    ELSE [heap |-> Append(h, HeapObj(EmptyDict, FALSE)), ref |-> Len(h) + 1]

\* an entry that loses the label given
Entry_nolabel(source, data, label, labelKwargsArg) ==
    [source |-> source, data |-> data, label |-> LabelNone,
     label_kwargs |-> IF labelKwargsArg.tag = "val" THEN labelKwargsArg.val
                      ELSE EmptyDict]

Entry(source, data, label, labelKwargsArg) ==
    [source |-> source, data |-> data, label |-> label,
     label_kwargs |-> IF labelKwargsArg.tag = "val" THEN labelKwargsArg.val
                      ELSE EmptyDict]

\* the body shared by add_shape and add_gdf; returns the heap and the layers
add_entry(h, ls, source, data, layer, styleArg, label, labelKwargsArg) ==
    LET created == LayerIndex(ls, layer) = 0
        made == StyleOrEmpty(h, styleArg)
        h1 == IF created THEN made.heap ELSE h
        ls1 == IF created
               THEN Append(ls, [name |-> layer, shapes |-> <<>>,
                                style |-> made.ref])
               ELSE ls
        k == LayerIndex(ls1, layer)
        ls2 == [ls1 EXCEPT ![k].shapes =
                   Append(@, Entry(source, data, label, labelKwargsArg))]
        h2 == IF Truthy(h, styleArg)
              THEN [h1 EXCEPT ![ls2[k].style].val =
                       DictUpdate(@, StyleValue(h, styleArg))]
              ELSE h1
    IN  [heap |-> h2, layers |-> ls2]

\* ghost: the left-to-right merge of the styles passed for each layer
Merge(m, layer, h, styleArg) ==
    LET before == IF layer \in DOMAIN m THEN m[layer] ELSE EmptyDict
        passed == IF styleArg.tag = "None" THEN EmptyDict
                  ELSE StyleValue(h, styleArg)
    IN  [n \in DOMAIN m \cup {layer} |->
            IF n = layer THEN DictUpdate(before, passed) ELSE m[n]]

RECURSIVE NumEntries(_, _)
NumEntries(ls, k) ==
    IF k > Len(ls) THEN 0 ELSE Len(ls[k].shapes) + NumEntries(ls, k + 1)

(***************************************************************************)
(* Map.plot.  What is handed to matplotlib is returned as the call's       *)
(* value: the tables drawn with their keyword arguments, the texts written *)
(* and the legend proxies.  A table (GeoDataFrame) is a sequence of rows,  *)
(* each a dict with a "geometry" column.                                   *)
(***************************************************************************)
DictGet(d, key, default) == IF key \in DOMAIN d THEN d[key] ELSE default

default_label_kwargs ==
    [k \in {"horizontalalignment", "verticalalignment", "fontsize", "color",
            "weight"} |->
        CASE k = "horizontalalignment" -> "center"
          [] k = "verticalalignment" -> "center"
          [] k = "fontsize" -> "10"
          [] k = "color" -> "black"
          [] k = "weight" -> "bold"]

\* ax.text(centroid.x, centroid.y, text, **kwargs); the centroid is named
\* by the geometry it is the centroid of
Text(geom, text, kwargs) == [of |-> geom, text |-> <<text>>, kwargs |-> kwargs]

\* the texts of a labelled table entry: one per row, default style
RECURSIVE RowTexts(_, _, _)
RowTexts(gdf, n, label) ==
    IF n > Len(gdf) THEN <<>>
    ELSE <<Text(gdf[n]["geometry"], gdf[n][label], default_label_kwargs)>>
         \o RowTexts(gdf, n + 1, label)

\* the (layer, item) pairs in the order the two nested loops visit them
RECURSIVE PlotOrder(_, _, _)
PlotOrder(ls, k, m) ==
    IF k > Len(ls) THEN <<>>
    ELSE IF m > Len(ls[k].shapes) THEN PlotOrder(ls, k + 1, 1)
    ELSE <<<<k, m>>>> \o PlotOrder(ls, k, m + 1)

PlotResult(outcome, shp, draws, texts) ==
    [outcome |-> outcome, shapes |-> shp, draws |-> draws, texts |-> texts]

\* the drawing loop over `todo` from position n; tables is the sequence of
\* GeoDataFrames the entries of source "gdf" refer to
RECURSIVE PlotLoop(_, _, _, _, _, _, _, _)
PlotLoop(ls, h, tables, todo, n, shp, draws, texts) ==
    IF n > Len(todo) THEN PlotResult("ok", shp, draws, texts)
    ELSE
      LET info == ls[todo[n][1]]
          item == info.shapes[todo[n][2]]
          isShape == item.source = "shape"
          gdf == IF isShape THEN to_gdf(shp[item.data]) ELSE tables[item.data]
          shp1 == IF isShape
                  THEN [shp EXCEPT ![item.data] = AfterToGdf(@)]
                  ELSE shp
          plot_kwargs == h[info.style].val
          draws1 == Append(draws, [layer |-> info.name, gdf |-> gdf,
                                   kwargs |-> plot_kwargs])
          label == item.label.s
      IN  IF item.label.t # "str"
          THEN PlotLoop(ls, h, tables, todo, n + 1, shp1, draws1, texts)
          ELSE IF isShape
          THEN PlotLoop(ls, h, tables, todo, n + 1, shp1, draws1,
                   Append(texts,
                       Text(shp1[item.data].geometry,
                            DictGet(shp1[item.data].data, label, ""),
                            DictUpdate(default_label_kwargs,
                                       item.label_kwargs))))
          ELSE IF \E r \in 1..Len(gdf) : label \notin DOMAIN gdf[r]
          THEN PlotResult("KeyError", shp1, draws1, texts)
          ELSE PlotLoop(ls, h, tables, todo, n + 1, shp1, draws1,
                        texts \o RowTexts(gdf, 1, label))

\* the geometry kind the legend loop gives a layer
LegendGeomType(info, shp) ==
    LET first == info.shapes[1]
        t == IF first.source = "shape" THEN shp[first.data].geometry.geom_type
             ELSE "dict"
    IN  CASE t \in {"Polygon", "MultiPolygon"} -> "Polygon"
          [] t \in {"LineString", "MultiLineString"} -> "Line"
          [] t \in {"Point", "MultiPoint"} -> "Point"
          [] OTHER -> "Other"

LegendProxy(info, h, shp) ==
    LET style == h[info.style].val
        color == DictGet(style, "color", "blue")
        geom_type == LegendGeomType(info, shp)
        patch == [k \in {"facecolor", "edgecolor"} |->
                     IF k = "facecolor"
                     THEN DictGet(style, "facecolor", "blue")
                     ELSE DictGet(style, "edgecolor", "black")]
    IN  CASE geom_type = "Line" ->
               [kind |-> "Line2D", label |-> info.name,
                props |-> [k \in {"color"} |-> color]]
          [] geom_type = "Point" ->
               [kind |-> "Line2D", label |-> info.name,
                props |-> [k \in {"marker", "color", "markerfacecolor"} |->
                              CASE k = "marker" -> "o"
                                [] k = "color" -> "w"
                                [] k = "markerfacecolor" -> color]]
          [] OTHER ->
               [kind |-> "Patch", label |-> info.name, props |-> patch]

plot(ls, h, tables, shp) ==
    LET drawn == PlotLoop(ls, h, tables, PlotOrder(ls, 1, 1), 1, shp,
                          <<>>, <<>>)
        legend_proxies == [k \in 1..Len(ls) |->
                              LegendProxy(ls[k], h, drawn.shapes)]
    IN  [outcome |-> drawn.outcome, shapes |-> drawn.shapes,
         ret |-> [draws |-> drawn.draws, texts |-> drawn.texts,
                  legend |-> IF drawn.outcome = "ok" THEN legend_proxies
                             ELSE <<>>]]

(***************************************************************************)
(* Spec: a program that holds three Shapes, one GeoDataFrame and one style *)
(* dict object, adds them to the layers of one Map and plots the Map.      *)
(***************************************************************************)
MapShapes ==
    << PointPostInit(Val(Pt(1, 1)), Val(NameData), "v2").obj,
       LinePostInit(Val(Path1), Omitted).obj,
       PolygonPostInit(Omitted, Omitted, Val(Pt(0, 0)), Val(Pt(2, 2)),
                       Omitted).obj >>

Tables ==
    << << [k \in {"name", "geometry"} |->
              IF k = "name" THEN "r1" ELSE ShapelyPoint(Pt(0, 0))],
          [k \in {"name", "geometry"} |->
              IF k = "name" THEN "r2" ELSE ShapelyPoint(Pt(2, 0))] >> >>

LayerNames == {"A", "B"}

\* the dict object the program holds in a variable and passes by reference
CallerStyle == [k \in {"color"} |-> "blue"]
StyleArgs ==
    {StyleNone, StyleRef(1), StyleLit(EmptyDict),
     StyleLit([k \in {"edgecolor"} |-> "black"])}

\* (label, label_kwargs) as passed
LabelArgs ==
    { <<LabelNone, Omitted>>, <<LabelStr("name"), Omitted>>,
      <<LabelStr("name"), Val([k \in {"color"} |-> "red"])>> }

AddEntry(op, source, data, layer, styleArg, lab) ==
    LET r == add_entry(heap, layers, source, data, layer, styleArg,
                       lab[1], lab[2])
    IN  /\ heap' = r.heap
        /\ layers' = r.layers
        /\ merged' = Merge(merged, layer, heap, styleArg)
        /\ last' = Call(op, 0,
                        [data |-> data, layer |-> layer, style |-> styleArg,
                         label |-> lab[1], label_kwargs |-> lab[2]],
                        "ok", <<>>)
        /\ UNCHANGED <<shapes, built, release, shapeMap>>

\* map.add_shape(shape, layer, style, label, label_kwargs)
AddShape ==
    /\ Running
    /\ NumEntries(layers, 1) < MaxCalls
    /\ \E i \in 1..Len(shapes), layer \in LayerNames, styleArg \in StyleArgs,
          lab \in LabelArgs :
           AddEntry("add_shape", "shape", i, layer, styleArg, lab)

\* map.add_gdf(gdf, layer, style, label, label_kwargs)
AddGdf ==
    /\ Running
    /\ NumEntries(layers, 1) < MaxCalls
    /\ \E g \in 1..Len(Tables), layer \in LayerNames, styleArg \in StyleArgs,
          lab \in LabelArgs :
           AddEntry("add_gdf", "gdf", g, layer, styleArg, lab)

\* map.plot()
Plot ==
    /\ Running
    /\ LET r == plot(layers, heap, Tables, shapes)
       IN  /\ shapes' = r.shapes
           /\ last' = Call("plot", 0, <<>>, r.outcome, r.ret)
    /\ UNCHANGED <<built, heap, layers, merged, release, shapeMap>>

Init ==
    /\ shapes = MapShapes
    /\ built = MapShapes
    /\ heap = <<HeapObj(CallerStyle, TRUE)>>
    /\ layers = <<>>
    /\ merged = <<>>
    /\ last = NoCall
    /\ release = <<>>
    /\ shapeMap = <<>>

Next ==
    \/ AddShape
    \/ AddGdf
    \/ Plot

Spec == Init /\ [][Next]_vars

(***************************************************************************)
(* SpecLayers: the same program filling the layers of its Map, without     *)
(* plotting it.                                                            *)
(***************************************************************************)
\* map.add_shape(shape, layer, style, label, label_kwargs)
FillAddShape ==
    /\ Running
    /\ NumEntries(layers, 1) < MaxEntries
    /\ \E i \in 1..Len(shapes), layer \in LayerNames, styleArg \in StyleArgs,
          lab \in LabelArgs :
           AddEntry("add_shape", "shape", i, layer, styleArg, lab)

\* map.add_gdf(gdf, layer, style, label, label_kwargs)
FillAddGdf ==
    /\ Running
    /\ NumEntries(layers, 1) < MaxEntries
    /\ \E g \in 1..Len(Tables), layer \in LayerNames, styleArg \in StyleArgs,
          lab \in LabelArgs :
           AddEntry("add_gdf", "gdf", g, layer, styleArg, lab)

InitLayers == Init

NextLayers ==
    \/ FillAddShape
    \/ FillAddGdf

SpecLayers == InitLayers /\ [][NextLayers]_vars

(***************************************************************************)
(* Claims about the Map's layer styles and about Shapes after              *)
(* construction.                                                           *)
(***************************************************************************)
\* C1: after any sequence of add_shape / add_gdf calls on one Map, the style
\* of each layer equals the left-to-right merge of the style arguments
\* passed in the calls for that layer.
C1_StyleIsMerge ==
    \A k \in 1..Len(layers) :
        heap[layers[k].style].val = merged[layers[k].name]

\* C8: a Shape is immutable after construction: no later operation on it
\* (to_gdf, split_grid, add_shape, plot) changes its coordinates, its
\* attribute mapping or its derived geometry.
C8_ShapeImmutable ==
    \A i \in 1..Len(shapes) :
        /\ shapes[i].coords = built[i].coords
        /\ DOMAIN shapes[i].data = DOMAIN built[i].data
        /\ \A key \in DOMAIN built[i].data :
               shapes[i].data[key] = built[i].data[key]
        /\ shapes[i].geometry = built[i].geometry

(***************************************************************************)
(* Claims about Map.plot and about the layers of a Map.                    *)
(***************************************************************************)
\* the label style C11 gives an entry
C11_Style(item) == DictUpdate(default_label_kwargs, item.label_kwargs)

\* the texts C11 gives a table entry: one per row, text from the column
RECURSIVE C11_RowTexts(_, _, _)
C11_RowTexts(item, gdf, n) ==
    IF n > Len(gdf) THEN <<>>
    ELSE <<Text(gdf[n]["geometry"], gdf[n][item.label.s], C11_Style(item))>>
         \o C11_RowTexts(item, gdf, n + 1)

\* the texts C11 gives the entries of todo from position n
RECURSIVE C11_Texts(_, _)
C11_Texts(todo, n) ==
    IF n > Len(todo) THEN <<>>
    ELSE LET item == layers[todo[n][1]].shapes[todo[n][2]]
             here ==
                 IF item.label.t # "str" THEN <<>>
                 ELSE IF item.source = "shape"
                 THEN <<Text(built[item.data].geometry,
                             DictGet(built[item.data].data, item.label.s, ""),
                             C11_Style(item))>>
                 ELSE C11_RowTexts(item, Tables[item.data], 1)
         IN  here \o C11_Texts(todo, n + 1)

\* C11: when Map.plot draws a label for an entry, the text style is the
\* defaults overridden key by key by the entry's label style options, for
\* shape entries (one label at the shape's centroid) and for table entries
\* (one label per row at the row's centroid, text from the named column).
C11_LabelStyle ==
    last.op = "plot" =>
        /\ last.outcome = "ok"
        /\ last.ret.texts = C11_Texts(PlotOrder(layers, 1, 1), 1)

\* the geometry kind of an entry: a shape's geometry, a table's rows (the
\* rows of the tables here are all of one kind)
C12_EntryGeomType(item) ==
    IF item.source = "shape" THEN built[item.data].geometry.geom_type
    ELSE Tables[item.data][1]["geometry"].geom_type

\* the proxy C12 gives a geometry kind
C12_ProxyFor(t) ==
    CASE t \in {"LineString", "MultiLineString"} -> "line swatch"
      [] t \in {"Point", "MultiPoint"} -> "point marker"
      [] OTHER -> "patch"

\* what a proxy built by plot is
C12_ProxyKind(proxy) ==
    IF proxy.kind = "Patch" THEN "patch"
    ELSE IF "marker" \in DOMAIN proxy.props THEN "point marker"
    ELSE "line swatch"

\* C12: Map.plot builds exactly one legend proxy per layer, in layer
\* insertion order and labelled with the layer name, whose kind is given by
\* the geometry kind of the layer's first entry (Polygon/MultiPolygon a
\* filled patch, LineString/MultiLineString a line swatch, Point/MultiPoint
\* a point marker, anything else the Other patch), whether the first entry
\* is a shape or a table.
C12_LegendPerLayer ==
    (last.op = "plot" /\ last.outcome = "ok") =>
        /\ Len(last.ret.legend) = Len(layers)
        /\ \A k \in 1..Len(layers) :
              /\ last.ret.legend[k].label = layers[k].name
              /\ C12_ProxyKind(last.ret.legend[k])
                   = C12_ProxyFor(C12_EntryGeomType(layers[k].shapes[1]))

\* the names and the entry lists of the layers, without their styles
C13_Entries(ls) ==
    [k \in 1..Len(ls) |-> [name |-> ls[k].name, shapes |-> ls[k].shapes]]

\* the entry a call adds, as C13 states it
C13_Added(call) ==
    [source |-> IF call.op = "add_shape" THEN "shape" ELSE "gdf",
     data |-> call.args.data,
     label |-> call.args.label,
     label_kwargs |-> IF call.args.label_kwargs.tag = "val"
                      THEN call.args.label_kwargs.val ELSE EmptyDict]

\* one call, from the layers before it to the layers after it
C13_Step ==
    IF last'.op \in {"add_shape", "add_gdf"}
    THEN LET name == last'.args.layer
             before == C13_Entries(layers)
             after == C13_Entries(layers')
             at == {k \in 1..Len(layers) : layers[k].name = name}
         IN  /\ Cardinality(at) <= 1
             /\ at = {} =>
                   after = Append(before, [name |-> name,
                                           shapes |-> <<C13_Added(last')>>])
             /\ \A k \in at :
                   after = [before EXCEPT ![k].shapes =
                               Append(@, C13_Added(last'))]
             /\ \A k \in 1..Len(layers') : Len(layers'[k].shapes) >= 1
    ELSE C13_Entries(layers') = C13_Entries(layers)

\* C13: on a Map that started with no layers, every add_shape / add_gdf
\* call appends exactly its entry (source tag, payload, label, label
\* options, {} if omitted) to the layer named, creating the layer at the
\* end when it is absent, and changes no other entry of any layer; so a
\* layer exists iff an entry was added under its name, has at least one
\* entry, and lists its entries in call order.
C13_LayerEntries == [][C13_Step]_vars

\* a shape entry created the first layer and a table entry with a label and
\* label options then created the second
C13_Witness ==
    /\ Len(layers) = 2
    /\ last.op = "add_gdf"
    /\ layers[1].shapes[1].source = "shape"
    /\ Len(layers[2].shapes) = 1
    /\ layers[2].shapes[1].source = "gdf"
    /\ layers[2].shapes[1].label.t = "str"
    /\ ~IsEmptyDict(layers[2].shapes[1].label_kwargs)

\* one add_shape / add_gdf call, as C15 states it
C15_Step ==
    last'.op \in {"add_shape", "add_gdf"} =>
        \* the style of every other layer is what it was
        /\ \A k \in 1..Len(layers) :
              layers[k].name # last'.args.layer =>
                  /\ layers'[k].name = layers[k].name
                  /\ heap'[layers'[k].style].val = heap[layers[k].style].val
        \* the dict objects the caller holds are what they were
        /\ \A o \in 1..Len(heap) :
              heap[o].caller => heap'[o] = heap[o]

\* C15: layer styles are isolated: an add_shape / add_gdf call for layer A
\* leaves the style mapping of every other layer unchanged and never
\* modifies the style mapping object the caller passed in (in this or an
\* earlier call), including when the same object was passed to the calls
\* that created two different layers.
C15_StylesIsolated == [][C15_Step]_vars

(***************************************************************************)
(* The release script, src/tools/release.py.  `release` is what the script *)
(* can change: [version, changelog, dirs, ran].                            *)
(*   version    project.version of pyproject.toml, <<major, minor, patch>> *)
(*   changelog  CHANGELOG.md: None when the file does not exist, else the  *)
(*              sequence of its parts, first part first                    *)
(*   dirs       the build directories that exist                          *)
(*   ran        the commands run_command has executed, in order: they are  *)
(*              what changes the git and GitHub state                      *)
(* The environment of a run is [branch, clean, tagged]: the branch checked *)
(* out, whether `git status` is clean and whether the tag of the previous  *)
(* version exists.  External commands succeed.                             *)
(***************************************************************************)
Repo(version, changelog, dirs, ran) ==
    [version |-> version, changelog |-> changelog, dirs |-> dirs,
     ran |-> ran]

\* bump_version on the parsed version; bump is one of the three choices
\* argparse admits
bump_version(version, bump) ==
    CASE bump = "patch" -> <<version[1], version[2], version[3] + 1>>
      [] bump = "minor" -> <<version[1], version[2] + 1, 0>>
      [] bump = "major" -> <<version[1] + 1, 0, 0>>

\* update_pyproject_version: the repo after it; it returns
\* (repo.version before, bump_version of it)
update_pyproject_version(repo, bump_type, dry_run) ==
    IF dry_run THEN repo
    ELSE [repo EXCEPT !.version = bump_version(repo.version, bump_type)]

\* run_command(cmd, dry_run): `python -m build` makes build/ and dist/
run_command(repo, cmd, dry_run) ==
    IF dry_run THEN repo
    ELSE [repo EXCEPT !.ran = Append(@, cmd),
                      !.dirs = IF cmd = "python -m build"
                               THEN @ \cup {"dist", "build"} ELSE @]

ChangelogHeader == [kind |-> "header", version |-> <<0, 0, 0>>, log |-> ""]
ChangelogEntry(version, log) ==
    [kind |-> "entry", version |-> version, log |-> log]

\* generate_changelog(version, previous_version): the entry is written in
\* front of the file's content, or after a new header when there is no file
generate_changelog(repo, version, tagged) ==
    LET entry == ChangelogEntry(version,
                     IF tagged THEN "git log" ELSE "no previous tag")
    IN  [repo EXCEPT !.changelog =
            IF @.tag = "val" THEN Val(<<entry>> \o @.val)
            ELSE Val(<<ChangelogHeader, entry>>)]

clean_build_dirs(repo) == [repo EXCEPT !.dirs = {}]

\* main(): the outcome and the repo at its end
main(repo, args, env) ==
    IF env.branch # "main" /\ ~args.dry_run
    THEN [outcome |-> "exit(1)", repo |-> repo]
    ELSE IF ~args.dry_run /\ ~env.clean
    THEN [outcome |-> "exit(1)", repo |-> repo]
    ELSE
      LET dry == args.dry_run
          new_version == bump_version(repo.version, args.bump)
          r1 == update_pyproject_version(repo, args.bump, dry)
          r2 == IF ~dry THEN clean_build_dirs(r1) ELSE r1
          r3 == run_command(r2, "python -m build", dry)
          r4 == run_command(r3, "git add pyproject.toml", dry)
          r5 == run_command(r4, "git commit (version)", dry)
          r6 == run_command(r5, "git tag", dry)
          r7 == generate_changelog(r6, new_version, env.tagged)
          r8 == run_command(r7, "git add CHANGELOG.md", dry)
          r9 == run_command(r8, "git commit (changelog)", dry)
          r10 == run_command(r9, "git push origin main --tags", dry)
          r11 == generate_changelog(r10, new_version, env.tagged)
          r12 == generate_changelog(r11, new_version, env.tagged)
          r13 == run_command(r12,
                     IF args.prerelease THEN "gh release create --prerelease"
                     ELSE "gh release create", dry)
      IN  [outcome |-> "ok", repo |-> r13]

(***************************************************************************)
(* SpecRelease: one run of the release script in a working tree.           *)
(***************************************************************************)
Versions == {<<0, 1, 0>>, <<1, 2, 3>>}
Changelogs ==
    {None, Val(<<ChangelogHeader>>),
     Val(<<ChangelogHeader, ChangelogEntry(<<0, 1, 0>>, "git log")>>)}
BuildDirs == SUBSET {"dist", "build"}
Bumps == {"patch", "minor", "major"}
Branches == {"main", "dev"}

\* python tools/release.py <bump> [--dry-run] [--prerelease]
Main ==
    /\ last.op = "none"
    /\ \E bump \in Bumps, dry_run \in BOOLEAN, prerelease \in BOOLEAN,
          branch \in Branches, clean \in BOOLEAN, tagged \in BOOLEAN :
          LET args == [bump |-> bump, dry_run |-> dry_run,
                       prerelease |-> prerelease]
              env == [branch |-> branch, clean |-> clean, tagged |-> tagged]
              r == main(release, args, env)
          IN  /\ release' = r.repo
              /\ last' = Call("main", 0,
                              [bump |-> bump, dry_run |-> dry_run,
                               prerelease |-> prerelease, env |-> env,
                               before |-> release],
                              r.outcome, <<>>)
    /\ UNCHANGED <<shapes, built, heap, layers, merged, shapeMap>>

InitRelease ==
    /\ shapes = <<>>
    /\ built = <<>>
    /\ heap = <<>>
    /\ layers = <<>>
    /\ merged = <<>>
    /\ last = NoCall
    /\ \E v \in Versions, c \in Changelogs, d \in BuildDirs :
          release = Repo(v, c, d, <<>>)
    /\ shapeMap = <<>>

NextRelease == Main

SpecRelease == InitRelease /\ [][NextRelease]_vars

\* C14: running the release script with --dry-run makes no changes: at the
\* end of main() the version in pyproject.toml, the contents of
\* CHANGELOG.md, the build directories and the git/GitHub state are what
\* they were before the run, and run_command has executed no command.
C14_DryRunChangesNothing ==
    (last.op = "main" /\ last.args.dry_run) =>
        /\ release.version = last.args.before.version
        /\ release.changelog = last.args.before.changelog
        /\ release.dirs = last.args.before.dirs
        /\ release.ran = <<>>

(***************************************************************************)
(* The shape-list Map of src/geometry.py.  Map.shapes is a list of Vector  *)
(* objects; a Vector is [id, geometry, label, attrs], id standing for the  *)
(* object's identity (Vector defines no __eq__, so list.remove finds an    *)
(* object by identity) and attrs for the attributes set from **kwargs.     *)
(***************************************************************************)
Vector(id, geometry, label, attrs) ==
    [id |-> id, geometry |-> geometry, label |-> label, attrs |-> attrs]

\* an identity no object of the list has
FreshId(list) ==
    CHOOSE id \in 1..(Len(list) + 1) :
        /\ \A k \in 1..Len(list) : list[k].id # id
        /\ \A smaller \in 1..(id - 1) :
               \E k \in 1..Len(list) : list[k].id = smaller

\* Map.add_gdf(gdf, label, **kwargs): one new Vector per row, appended in
\* row order, its label the row's value in the column named (None when no
\* column is named); from row n on
RECURSIVE map_add_gdf(_, _, _, _, _)
map_add_gdf(list, gdf, n, label, kwargs) ==
    IF n > Len(gdf) THEN list
    ELSE LET shape == Vector(FreshId(list), gdf[n]["geometry"],
                             IF label.t = "str" THEN LabelStr(gdf[n][label.s])
                             ELSE LabelNone,
                             kwargs)
         IN  map_add_gdf(Append(list, shape), gdf, n + 1, label, kwargs)

\* list.remove(x): the list without its first element that is x
ListRemove(list, x) ==
    LET at == CHOOSE k \in 1..Len(list) :
                  list[k].id = x.id /\ \A j \in 1..(k - 1) : list[j].id # x.id
    IN  [k \in 1..(Len(list) - 1) |-> IF k < at THEN list[k] ELSE list[k + 1]]

\* `for shape in self.shapes` from position i: the list iterator keeps an
\* index into the list, which a removal does not move back
RECURSIVE RemoveLoop(_, _, _)
RemoveLoop(list, geom, i) ==
    IF i > Len(list) THEN list
    ELSE IF list[i].geometry = geom
    THEN RemoveLoop(ListRemove(list, list[i]), geom, i + 1)
    ELSE RemoveLoop(list, geom, i + 1)

\* Map.remove(gdf), from row n on
RECURSIVE map_remove(_, _, _)
map_remove(list, gdf, n) ==
    IF n > Len(gdf) THEN list
    ELSE map_remove(RemoveLoop(list, gdf[n]["geometry"], 1), gdf, n + 1)

(***************************************************************************)
(* SpecRemove: a program that fills a shape-list Map from tables and       *)
(* removes tables from it.                                                 *)
(***************************************************************************)
MapGeometries == {ShapelyPoint(Pt(0, 0)), ShapelyLineString(Path1)}
Row(g) ==
    [k \in {"name", "geometry"} |->
        IF k = "geometry" THEN g ELSE g.geom_type]
MaxTableRows == 2
MapTables ==
    UNION { [1..n -> {Row(g) : g \in MapGeometries}] : n \in 1..MaxTableRows }

MapAddGdf ==
    /\ Running
    /\ \E gdf \in MapTables, label \in {LabelNone, LabelStr("name")},
          kwargs \in {EmptyDict, [k \in {"color"} |-> "red"]} :
          /\ Len(shapeMap) + Len(gdf) <= MaxMapShapes
          /\ shapeMap' = map_add_gdf(shapeMap, gdf, 1, label, kwargs)
          /\ last' = Call("add_gdf", 0,
                          [gdf |-> gdf, label |-> label, kwargs |-> kwargs,
                           before |-> shapeMap], "ok", <<>>)
    /\ UNCHANGED <<shapes, built, heap, layers, merged, release>>

MapRemove ==
    /\ Running
    /\ \E gdf \in MapTables :
          /\ shapeMap' = map_remove(shapeMap, gdf, 1)
          /\ last' = Call("remove", 0,
                          [gdf |-> gdf, label |-> LabelNone,
                           kwargs |-> EmptyDict, before |-> shapeMap],
                          "ok", <<>>)
    /\ UNCHANGED <<shapes, built, heap, layers, merged, release>>

InitRemove ==
    /\ shapes = <<>>
    /\ built = <<>>
    /\ heap = <<>>
    /\ layers = <<>>
    /\ merged = <<>>
    /\ last = NoCall
    /\ release = <<>>
    /\ shapeMap = <<>>

NextRemove ==
    \/ MapAddGdf
    \/ MapRemove

SpecRemove == InitRemove /\ [][NextRemove]_vars

\* C16: after Map.remove(gdf) no shape remaining in the map has a geometry
\* equal to the geometry of any row of gdf (also when several shapes with
\* an equal geometry sit next to each other in the list), and every shape
\* whose geometry equals no row's geometry is still present, in its
\* original relative order.
C16_RemoveRemovesAll ==
    last.op = "remove" =>
        LET gdf == last.args.gdf
            Gone(shape) == \E r \in 1..Len(gdf) :
                               shape.geometry = gdf[r]["geometry"]
            Kept(shape) == ~Gone(shape)
        IN  /\ \A k \in 1..Len(shapeMap) : ~Gone(shapeMap[k])
            /\ SelectSeq(shapeMap, Kept) = SelectSeq(last.args.before, Kept)

====
